---- MODULE Spec2Model ----
(***************************************************************************)
(* A model of the Bruno-collection-to-Markdown converter (src/src/main.py).*)
(* Text is a sequence of one-character strings, so that the regular        *)
(* expressions, strip(), split() and int() of the source are computed      *)
(* character by character.                                                 *)
(***************************************************************************)
EXTENDS Integers, Sequences, FiniteSets, TLC

VARIABLES
    text,          \* parse run: content of the file handed to parse_bru_file
    record,        \* parse run: what parse_bru_file returned
    rendered,      \* parse run: what generate_request_markdown returned
    ppc,           \* parse run: position ("read", "parsed", "rendered")
    descriptor,    \* main run: state of <collection>/bruno.json
    listing,       \* main run: directory -> sequence of .bru files (content ids)
    pc,            \* main run: position of main()
    walk,          \* main run: directories os.walk has still to yield
    cur,           \* main run: directory being processed (root_path)
    todo,          \* main run: files of cur not yet looked at
    folder_name,   \* main run: display name of cur
    requests_data, \* main run: records gathered for cur
    top_level_folders, \* main run: (name, link) pairs for the root index
    out_created,   \* main run: the output directory was created by this run
    out_files,     \* main run: output path -> document now stored there
    generated      \* main run: the "Generated: <path>" lines printed, in order

vars == <<text, record, rendered, ppc, descriptor, listing, pc, walk, cur, todo,
          folder_name, requests_data, top_level_folders, out_created, out_files,
          generated>>

parseVars == <<text, record, rendered, ppc>>
mainVars == <<descriptor, listing, pc, walk, cur, todo, folder_name, requests_data,
              top_level_folders, out_created, out_files, generated>>

----------------------------------------------------------------------------
(* Characters and the str / re primitives of Python the source relies on.  *)

LowerLetters == <<"a","b","c","d","e","f","g","h","i","j","k","l","m",
                  "n","o","p","q","r","s","t","u","v","w","x","y","z">>
UpperLetters == <<"A","B","C","D","E","F","G","H","I","J","K","L","M",
                  "N","O","P","Q","R","S","T","U","V","W","X","Y","Z">>
Digits == <<"0","1","2","3","4","5","6","7","8","9">>

Range(s) == {s[i] : i \in DOMAIN s}

\* \s of re, and the characters str.strip() removes
IsSpace(c) == c \in {" ", "\t", "\n", "\r", "\f"}
\* \d of re
IsDigit(c) == c \in Range(Digits)
\* \w of re
IsWord(c) == c \in Range(LowerLetters) \cup Range(UpperLetters) \cup Range(Digits) \cup {"_"}

IndexIn(s, c) == CHOOSE i \in DOMAIN s : s[i] = c
\* str.upper() / str.lower() on one character
UpperChar(c) == IF c \in Range(LowerLetters) THEN UpperLetters[IndexIn(LowerLetters, c)] ELSE c
LowerChar(c) == IF c \in Range(UpperLetters) THEN LowerLetters[IndexIn(UpperLetters, c)] ELSE c
Upper(s) == [i \in DOMAIN s |-> UpperChar(s[i])]
Lower(s) == [i \in DOMAIN s |-> LowerChar(s[i])]

\* the literal lit matches s at position i (under re.IGNORECASE when ic)
LitAt(s, i, lit, ic) ==
    /\ i >= 1
    /\ i + Len(lit) - 1 <= Len(s)
    /\ \A k \in 1..Len(lit) :
         IF ic THEN LowerChar(s[i + k - 1]) = LowerChar(lit[k]) ELSE s[i + k - 1] = lit[k]

\* position after a greedy \s* started at i
SkipSpace(s, i) ==
    CHOOSE j \in i..(Len(s) + 1) :
        /\ \A k \in i..(j - 1) : IsSpace(s[k])
        /\ (j = Len(s) + 1 \/ ~IsSpace(s[j]))

\* position after a greedy \w* started at i
SkipWord(s, i) ==
    CHOOSE j \in i..(Len(s) + 1) :
        /\ \A k \in i..(j - 1) : IsWord(s[k])
        /\ (j = Len(s) + 1 \/ ~IsWord(s[j]))

\* position after a greedy \d* started at i
SkipDigits(s, i) ==
    CHOOSE j \in i..(Len(s) + 1) :
        /\ \A k \in i..(j - 1) : IsDigit(s[k])
        /\ (j = Len(s) + 1 \/ ~IsDigit(s[j]))

\* first position >= i holding c, or 0
IndexFrom(s, i, c) ==
    IF \E j \in i..Len(s) : s[j] = c
    THEN CHOOSE j \in i..Len(s) : s[j] = c /\ \A k \in i..(j - 1) : s[k] # c
    ELSE 0

\* end of the line that position i lies on: the position of its "\n", or Len+1
LineEnd(s, i) == LET n == IndexFrom(s, i, "\n") IN IF n = 0 THEN Len(s) + 1 ELSE n

\* str.strip()
Strip(s) ==
    IF \A i \in DOMAIN s : IsSpace(s[i]) THEN <<>>
    ELSE LET a == CHOOSE i \in DOMAIN s : ~IsSpace(s[i]) /\ \A k \in 1..(i - 1) : IsSpace(s[k])
             b == CHOOSE i \in DOMAIN s : ~IsSpace(s[i]) /\ \A k \in (i + 1)..Len(s) : IsSpace(s[k])
         IN SubSeq(s, a, b)

\* str.split('\n')
RECURSIVE SplitLines(_)
SplitLines(s) ==
    LET n == IndexFrom(s, 1, "\n")
    IN IF n = 0 THEN <<s>>
       ELSE <<SubSeq(s, 1, n - 1)>> \o SplitLines(SubSeq(s, n + 1, Len(s)))

\* int() of a run of decimal digits
RECURSIVE ToInt(_)
ToInt(ds) ==
    IF ds = <<>> THEN 0
    ELSE 10 * ToInt(SubSeq(ds, 1, Len(ds) - 1)) + (IndexIn(Digits, ds[Len(ds)]) - 1)

NoMatch == [found |-> FALSE]

\* the leftmost of the positions where a pattern matches, as re.search scans; 0 if none
FirstPos(positions) ==
    IF positions = {} THEN 0 ELSE CHOOSE i \in positions : \A k \in positions : i <= k

(* re.search(tag \s* \{ ([\s\S]*?) \}): the tag, optional whitespace, an     *)
(* opening brace, and the shortest text up to a closing brace.              *)
BlockAt(s, i, tag, ic) ==
    /\ LitAt(s, i, tag, ic)
    /\ LET j == SkipSpace(s, i + Len(tag))
       IN j <= Len(s) /\ s[j] = "{" /\ IndexFrom(s, j + 1, "}") # 0

BlockContent(s, i, tag) ==
    LET j == SkipSpace(s, i + Len(tag))
    IN SubSeq(s, j + 1, IndexFrom(s, j + 1, "}") - 1)

\* tags: the alternatives of the pattern, tried in order at each position
SearchBlock(s, tags, ic) ==
    LET At(i) == \E t \in DOMAIN tags : BlockAt(s, i, tags[t], ic)
        i == FirstPos({k \in 1..Len(s) : At(k)})
    IN IF i = 0 THEN NoMatch
       ELSE LET t == CHOOSE t \in DOMAIN tags :
                        BlockAt(s, i, tags[t], ic) /\ \A u \in 1..(t - 1) : ~BlockAt(s, i, tags[u], ic)
            IN [found |-> TRUE,
                tag |-> SubSeq(s, i, i + Len(tags[t]) - 1),
                content |-> BlockContent(s, i, tags[t])]

----------------------------------------------------------------------------
(* Literals of the source.                                                 *)

MetaTag == <<"m","e","t","a">>
NameKey == <<"n","a","m","e",":">>
SeqKey == <<"s","e","q",":">>
UrlKey == <<"u","r","l",":">>
BodyPrefix == <<"b","o","d","y",":">>
JsonType == <<"j","s","o","n">>
ParamsPathTag == <<"p","a","r","a","m","s",":","p","a","t","h">>
ParamsQueryTag == <<"p","a","r","a","m","s",":","q","u","e","r","y">>
HeadersTag == <<"h","e","a","d","e","r","s">>
UnnamedRequest == <<"U","n","n","a","m","e","d"," ","R","e","q","u","e","s","t">>
NoUrlFound == <<"N","o"," ","U","R","L"," ","f","o","u","n","d">>
MethodTags == << <<"g","e","t">>, <<"p","o","s","t">>, <<"p","u","t">>, <<"p","a","t","c","h">>,
                 <<"d","e","l","e","t","e">>, <<"o","p","t","i","o","n","s">>, <<"h","e","a","d">> >>
\* the grave accent, U+0060, which a TLA+ string cannot hold, under a name of its own
Backtick == "GRAVE"
FenceMark == <<Backtick, Backtick, Backtick>>
DefaultSeq == 999

None == [kind |-> "None"]

----------------------------------------------------------------------------
(* parse_bru_file, from the file's text on.                                *)

\* re.search(r'name:\s*(.*)', s): group(1), or NoMatch
NameMatch(s) ==
    LET At(i) == LitAt(s, i, NameKey, FALSE)
        i == FirstPos({k \in 1..Len(s) : At(k)})
    IN IF i = 0 THEN NoMatch
       ELSE LET j == SkipSpace(s, i + Len(NameKey))
            IN [found |-> TRUE, group |-> SubSeq(s, j, LineEnd(s, j) - 1)]

\* re.search(r'seq:\s*(\d+)', s): group(1), or NoMatch
SeqMatch(s) ==
    LET At(i) == /\ LitAt(s, i, SeqKey, FALSE)
                 /\ LET j == SkipSpace(s, i + Len(SeqKey)) IN j <= Len(s) /\ IsDigit(s[j])
        i == FirstPos({k \in 1..Len(s) : At(k)})
    IN IF i = 0 THEN NoMatch
       ELSE LET j == SkipSpace(s, i + Len(SeqKey))
            IN [found |-> TRUE, group |-> SubSeq(s, j, SkipDigits(s, j) - 1)]

(* re.search(r'^url:\s*(.+)$', s, re.MULTILINE).  The key must stand at the *)
(* start of a line.  \s* is greedy and may run over line ends; when it      *)
(* swallows the rest of the text it gives characters back until (.+) finds  *)
(* one that is not a line end.                                              *)
UrlGroupStart(s, i) ==
    LET j == SkipSpace(s, i + Len(UrlKey))
    IN IF j <= Len(s) THEN j
       ELSE IF \E p \in (i + Len(UrlKey))..Len(s) : s[p] # "\n"
            THEN CHOOSE p \in (i + Len(UrlKey))..Len(s) :
                     s[p] # "\n" /\ \A q \in (p + 1)..Len(s) : s[q] = "\n"
            ELSE 0

UrlMatch(s) ==
    LET At(i) == /\ (i = 1 \/ s[i - 1] = "\n")
                 /\ LitAt(s, i, UrlKey, FALSE)
                 /\ UrlGroupStart(s, i) # 0
        i == FirstPos({k \in 1..Len(s) : At(k)})
    IN IF i = 0 THEN NoMatch
       ELSE LET g == UrlGroupStart(s, i)
            IN [found |-> TRUE, group |-> SubSeq(s, g, LineEnd(s, g) - 1)]

\* a dict that moves a key written again to the end
DictSetMoveToEnd(d, key, value) ==
    Append(SelectSeq(d, LAMBDA e : e[1] # key), <<key, value>>)

\* params[key] = value on an insertion-ordered dict, kept as a sequence of pairs
DictSet(d, key, value) ==
    IF \E i \in DOMAIN d : d[i][1] = key
    THEN [i \in DOMAIN d |-> IF d[i][1] = key THEN <<key, value>> ELSE d[i]]
    ELSE Append(d, <<key, value>>)

\* line.split(':', 1) after line.strip(), when ':' is in the line
SplitFirstColon(line) ==
    LET c == IndexFrom(line, 1, ":")
    IN <<Strip(SubSeq(line, 1, c - 1)), Strip(SubSeq(line, c + 1, Len(line)))>>

\* the for loop over the block's lines
RECURSIVE AddLines(_, _)
AddLines(params, lines) ==
    IF lines = <<>> THEN params
    ELSE LET line == Strip(Head(lines))
             next == IF IndexFrom(line, 1, ":") # 0
                     THEN LET kv == SplitFirstColon(line) IN DictSet(params, kv[1], kv[2])
                     ELSE params
         IN AddLines(next, Tail(lines))

parse_params_block(block_name, txt) ==
    LET block_match == SearchBlock(txt, <<block_name>>, FALSE)
    IN IF block_match.found
       THEN AddLines(<<>>, SplitLines(Strip(block_match.content)))
       ELSE <<>>

\* re.search(r'body:(\w+)\s*\{([\s\S]*?)\}', content)
BodyAt(s, i) ==
    /\ LitAt(s, i, BodyPrefix, FALSE)
    /\ LET w == SkipWord(s, i + Len(BodyPrefix))
           j == SkipSpace(s, w)
       IN w > i + Len(BodyPrefix) /\ j <= Len(s) /\ s[j] = "{" /\ IndexFrom(s, j + 1, "}") # 0

BodyMatch(s) ==
    LET At(i) == BodyAt(s, i)
        i == FirstPos({k \in 1..Len(s) : At(k)})
    IN IF i = 0 THEN NoMatch
       ELSE LET w == SkipWord(s, i + Len(BodyPrefix))
                j == SkipSpace(s, w)
            IN [found |-> TRUE,
                body_type |-> SubSeq(s, i + Len(BodyPrefix), w - 1),
                content |-> SubSeq(s, j + 1, IndexFrom(s, j + 1, "}") - 1)]

\* re.search(r'\{([\s\S]*)\}', raw_body): group(0), from the first { to the last }
JsonBodyMatch(raw) ==
    LET a == IndexFrom(raw, 1, "{")
    IN IF a = 0 \/ IndexFrom(raw, a + 1, "}") = 0 THEN NoMatch
       ELSE LET b == CHOOSE b \in (a + 1)..Len(raw) :
                         raw[b] = "}" /\ \A k \in (b + 1)..Len(raw) : raw[k] # "}"
            IN [found |-> TRUE, group |-> SubSeq(raw, a, b)]

\* f"```{label}\n{raw}\n```"
Fence(label, raw) == FenceMark \o label \o <<"\n">> \o raw \o <<"\n">> \o FenceMark

(* json.loads and json.dumps(indent=2) on the JSON documents the model's     *)
(* inputs can spell: an object whose members are "key": non-negative         *)
(* integer.  Any other text handed to JsonLoads in this model is not JSON     *)
(* at all, and raises json.JSONDecodeError (ok = FALSE).                      *)
IsJsonSpace(c) == c \in {" ", "\t", "\n", "\r"}

SkipJsonSpace(s, i) ==
    CHOOSE j \in i..(Len(s) + 1) :
        /\ \A k \in i..(j - 1) : IsJsonSpace(s[k])
        /\ (j = Len(s) + 1 \/ ~IsJsonSpace(s[j]))

JsonError == [ok |-> FALSE]

\* str(n) of a non-negative int
RECURSIVE IntToDigits(_)
IntToDigits(n) ==
    IF n < 10 THEN <<Digits[n + 1]>>
    ELSE IntToDigits(n \div 10) \o <<Digits[(n % 10) + 1]>>

\* the members of an object from position i on, after the members in obj
RECURSIVE JsonMembers(_, _, _)
JsonMembers(s, i, obj) ==
    IF ~(i <= Len(s) /\ s[i] = "\"") THEN JsonError
    ELSE LET q == IndexFrom(s, i + 1, "\"")
         IN IF q = 0 \/ \E k \in (i + 1)..(q - 1) : ~IsWord(s[k]) THEN JsonError
            ELSE LET c == SkipJsonSpace(s, q + 1)
                     v == SkipJsonSpace(s, c + 1)
                     e == SkipDigits(s, v)
                     n == SkipJsonSpace(s, e)
                 IN IF ~(c <= Len(s) /\ s[c] = ":") THEN JsonError
                    ELSE IF e = v \/ (e > v + 1 /\ s[v] = "0") THEN JsonError
                    ELSE LET next == DictSet(obj, SubSeq(s, i + 1, q - 1), ToInt(SubSeq(s, v, e - 1)))
                         IN IF n = Len(s) /\ s[n] = "}" THEN [ok |-> TRUE, obj |-> next]
                            ELSE IF n < Len(s) /\ s[n] = ","
                                 THEN JsonMembers(s, SkipJsonSpace(s, n + 1), next)
                                 ELSE JsonError

JsonLoads(s) ==
    IF ~(Len(s) >= 2 /\ s[1] = "{") THEN JsonError
    ELSE LET i == SkipJsonSpace(s, 2)
         IN IF i = Len(s) /\ s[i] = "}" THEN [ok |-> TRUE, obj |-> <<>>]
            ELSE JsonMembers(s, i, <<>>)

RECURSIVE JsonDumpMembers(_)
JsonDumpMembers(obj) ==
    IF obj = <<>> THEN <<>>
    ELSE <<" ", " ", "\"">> \o obj[1][1] \o <<"\"", ":", " ">> \o IntToDigits(obj[1][2])
         \o (IF Len(obj) > 1 THEN <<",", "\n">> ELSE <<"\n">>)
         \o JsonDumpMembers(Tail(obj))

JsonDumps(obj) ==
    IF obj = <<>> THEN <<"{", "}">>
    ELSE <<"{", "\n">> \o JsonDumpMembers(obj) \o <<"}">>

\* the body_content of lines 75-94
BodyContent(content) ==
    LET body_match == BodyMatch(content)
    IN IF ~body_match.found THEN <<>>
       ELSE LET body_type == body_match.body_type
                raw_body == Strip(body_match.content)
            IN IF Lower(body_type) = JsonType
               THEN LET json_body_match == JsonBodyMatch(raw_body)
                    IN IF json_body_match.found
                       THEN LET parsed_json == JsonLoads(json_body_match.group)
                            IN IF parsed_json.ok
                               THEN Fence(JsonType, JsonDumps(parsed_json.obj))
                               ELSE Fence(<<>>, raw_body)
                       ELSE Fence(JsonType, raw_body)
               ELSE Fence(body_type, raw_body)

\* parse_bru_file once the file's text has been read (lines 35-106)
ParseContent(content) ==
    LET meta_match == SearchBlock(content, <<MetaTag>>, FALSE)
    IN IF ~meta_match.found THEN None
       ELSE LET meta_content == meta_match.content
                name_match == NameMatch(meta_content)
                seq_match == SeqMatch(meta_content)
                method_match == SearchBlock(content, MethodTags, TRUE)
            IN IF ~method_match.found THEN None
               ELSE LET url_match == UrlMatch(method_match.content)
                    IN [kind |-> "record",
                        name |-> IF name_match.found THEN Strip(name_match.group) ELSE UnnamedRequest,
                        seq |-> IF seq_match.found THEN ToInt(seq_match.group) ELSE DefaultSeq,
                        method |-> Upper(method_match.tag),
                        url |-> IF url_match.found THEN Strip(url_match.group) ELSE NoUrlFound,
                        path_params |-> parse_params_block(ParamsPathTag, content),
                        query_params |-> parse_params_block(ParamsQueryTag, content),
                        headers |-> parse_params_block(HeadersTag, content),
                        body |-> BodyContent(content)]

----------------------------------------------------------------------------
(* generate_request_markdown                                               *)

\* "\n".join(lines)
RECURSIVE JoinLines(_)
JoinLines(lines) ==
    IF lines = <<>> THEN <<>>
    ELSE IF Len(lines) = 1 THEN lines[1]
    ELSE lines[1] \o <<"\n">> \o JoinLines(Tail(lines))

TableHeader == <<"|"," ","N","a","m","e"," ","|"," ","V","a","l","u","e"," ","/"," ",
                 "D","e","s","c","r","i","p","t","i","o","n"," ","|">>
TableRule == <<"|","-","-","-","-","-","-","|","-","-","-","-","-","-","-","-","-","-","-",
               "-","-","-","-","-","-","-","-","-","-","|">>
PathTitle == <<"P","a","t","h"," ","P","a","r","a","m","e","t","e","r","s">>
QueryTitle == <<"Q","u","e","r","y"," ","P","a","r","a","m","e","t","e","r","s">>
HeadersTitle == <<"H","e","a","d","e","r","s">>
BodyTitle == <<"B","o","d","y">>

\* the lines generate_table appends to md
generate_table(title, params) ==
    IF params = <<>> THEN <<>>
    ELSE << <<"*","*">> \o title \o <<"*","*","\n">>, TableHeader, TableRule >>
         \o [i \in DOMAIN params |->
               <<"|"," ",Backtick>> \o params[i][1] \o <<Backtick," ","|"," ">>
               \o params[i][2] \o <<" ","|">>]
         \o << <<>> >>

generate_request_markdown(req_data) ==
    LET md == << <<"#","#","#"," ">> \o req_data.name \o <<"\n">>,
                 <<"*","*",Backtick>> \o req_data.method \o <<Backtick,"*","*"," ",Backtick>>
                     \o req_data.url \o <<Backtick,"\n">> >>
              \o generate_table(PathTitle, req_data.path_params)
              \o generate_table(QueryTitle, req_data.query_params)
              \o generate_table(HeadersTitle, req_data.headers)
              \o (IF req_data.body # <<>>
                  THEN << <<"*","*">> \o BodyTitle \o <<"*","*","\n">>, req_data.body >>
                  ELSE <<>>)
    IN JoinLines(md) \o <<"\n","-","-","-","\n">>

----------------------------------------------------------------------------
(* The parse run: parse_bru_file and generate_request_markdown applied to   *)
(* one file text.  The texts are the concatenations of one fragment of each *)
(* kind of block, an empty fragment standing for a block that is missing.   *)

\* the meta block
MetaNone == <<>>
MetaInline == <<"m","e","t","a"," ","{"," ","n","a","m","e",":"," ","X","\n","s","e","q",
    ":"," ","3"," ","}","\n">>
MetaNoSeq == <<"m","e","t","a"," ","{","\n"," "," ","n","a","m","e",":"," ","Y","\n"," ",
    " ","t","y","p","e",":"," ","h","t","t","p","\n","}","\n">>
MetaSeq1000 == <<"m","e","t","a"," ","{","\n"," "," ","n","a","m","e",":"," ","Z","\n"," ",
    " ","s","e","q",":"," ","1","0","0","0","\n","}","\n">>
MetaSeq999 == <<"m","e","t","a"," ","{","\n"," "," ","n","a","m","e",":"," ","W","\n"," ",
    " ","s","e","q",":"," ","9","9","9","\n","}","\n">>
MetaEmptyName == <<"m","e","t","a"," ","{","\n"," "," ","n","a","m","e",":","\n"," "," ",
    "s","e","q",":"," ","1","2","\n","}","\n">>
MetaFragments == {MetaNone, MetaInline, MetaNoSeq, MetaSeq1000, MetaSeq999, MetaEmptyName}

\* the method block
MethodNone == <<>>
GetInline == <<"g","e","t"," ","{"," ","u","r","l",":"," ","/","f","o","o"," ","}","\n">>
PostLineStart == <<"p","o","s","t"," ","{","\n","u","r","l",":"," ","/","p","\n","}","\n">>
GetUpperIndented == <<"G","E","T"," ","{","\n"," "," ","u","r","l",":"," ","/","f","o","o",
    "\n"," "," ","b","o","d","y",":"," ","j","s","o","n","\n","}","\n">>
TargetBlock == <<"t","a","r","g","e","t"," ","{"," ","u","r","l",":"," ","/","t"," ","}",
    "\n">>
WidgetBlock == <<"w","i","d","g","e","t"," ","{","\n","u","r","l",":"," ","/","w","\n","}",
    "\n">>
DeleteEmpty == <<"d","e","l","e","t","e"," ","{","\n","}","\n">>
MethodFragments == {MethodNone, GetInline, PostLineStart, GetUpperIndented, TargetBlock, WidgetBlock, DeleteEmpty}

\* the parameter blocks
ParamsNone == <<>>
HeadersAB == <<"h","e","a","d","e","r","s"," ","{"," ","A",":"," ","1","\n","B",":"," ","2",
    " ","}","\n">>
HeadersDup == <<"h","e","a","d","e","r","s"," ","{","\n"," "," ","B",":"," ","1","\n"," ",
    " ","j","u","n","k","\n"," "," ","A",":"," ","x",":","y","\n"," "," ","B",":"," ","2",
    "\n","}","\n">>
ParamsBoth == <<"p","a","r","a","m","s",":","q","u","e","r","y"," ","{","\n"," "," ","q",
    ":"," ","1","\n"," "," ","p",":"," ","2","\n"," "," ","q",":"," ","3","\n","}","\n","p",
    "a","r","a","m","s",":","p","a","t","h"," ","{","\n"," "," ","i","d",":"," ","7","\n",
    "}","\n">>
HeadersVar == <<"h","e","a","d","e","r","s"," ","{","\n"," "," ","A","u","t","h",":"," ",
    "{","{","t","o","k","}","}","\n"," "," ","A",":"," ","1","\n","}","\n">>
ParamFragments == {ParamsNone, HeadersAB, HeadersDup, ParamsBoth, HeadersVar}

\* the body block
BodyNone == <<>>
BodyJsonValid == <<"b","o","d","y",":","j","s","o","n"," ","{"," ","{","\"","a","\"",":",
    " ","1","}"," ","}","\n">>
BodyJsonMultiline == <<"b","o","d","y",":","j","s","o","n"," ","{","\n"," "," ","{","\n",
    " "," "," "," ","\"","b","\"",":"," ","2",",","\n"," "," "," "," ","\"","a","\"",":",
    " ","1","0","\n"," "," ","}","\n","}","\n">>
BodyJsonInvalid == <<"b","o","d","y",":","j","s","o","n"," ","{"," ","{","a",":"," ","1",
    "}"," ","}","\n">>
BodyText == <<"b","o","d","y",":","t","e","x","t"," ","{"," ","h","i"," ","}","\n">>
BodyJsonPlain == <<"b","o","d","y",":","J","S","O","N"," ","{","\n"," "," ","p","l","a","i",
    "n","\n","}","\n">>
BodyFragments == {BodyNone, BodyJsonValid, BodyJsonMultiline, BodyJsonInvalid, BodyText, BodyJsonPlain}

Texts == {m \o h \o p \o b : m \in MetaFragments, h \in MethodFragments,
                            p \in ParamFragments, b \in BodyFragments}

MainIdle ==
    /\ descriptor = [state |-> "missing"]
    /\ listing = <<>>
    /\ pc = "idle"
    /\ walk = <<>>
    /\ cur = <<>>
    /\ todo = <<>>
    /\ folder_name = <<>>
    /\ requests_data = <<>>
    /\ top_level_folders = <<>>
    /\ out_created = FALSE
    /\ out_files = <<>>
    /\ generated = <<>>

InitParse ==
    /\ text \in Texts
    /\ record = None
    /\ rendered = <<>>
    /\ ppc = "read"
    /\ MainIdle

\* parse_bru_file on a file that read_text could read
ParseBruFile ==
    /\ ppc = "read"
    /\ record' = ParseContent(text)
    /\ ppc' = "parsed"
    /\ UNCHANGED <<text, rendered>>
    /\ UNCHANGED mainVars

\* generate_request_markdown on the record (main calls it for records only)
Render ==
    /\ ppc = "parsed"
    /\ record # None
    /\ rendered' = generate_request_markdown(record)
    /\ ppc' = "rendered"
    /\ UNCHANGED <<text, record>>
    /\ UNCHANGED mainVars

NextParse == ParseBruFile \/ Render

SpecParse == InitParse /\ [][NextParse]_vars

----------------------------------------------------------------------------
(* The main run: a collection directory                                     *)
(*     coll/  bruno.json  <request files>                                   *)
(*       a/   folder.bru  <request files>                                   *)
(*         x/ one request file                                              *)
(*       b/   <request files>                                               *)
(*       node_modules/  one request file                                    *)
(* converted into an output directory.  A directory is the sequence of the  *)
(* names on its path below the collection root.                             *)

FolderBruA == <<"m","e","t","a"," ","{","\n"," "," ","n","a","m","e",":"," ","A","l","p",
    "h","a","\n","}","\n">>
CollectionDirName == <<"c","o","l","l">>
ApiName == <<"S","h","o","p"," ","A","P","I">>
DirA == <<"a">>
DirX == <<"x">>
DirB == <<"b">>
DirNodeModules == <<"n","o","d","e","_","m","o","d","u","l","e","s">>
DirGit == <<".","g","i","t">>
ReadmeName == <<"R","E","A","D","M","E",".","m","d">>
IndexTitle == <<"#"," ","A","P","I"," ","D","o","c","u","m","e","n","t","a","t","i","o","n",
    ":"," ">>
EndpointsTitle == <<"#","#"," ","E","n","d","p","o","i","n","t","s","\n">>
\* most request files the collection holds in coll/, a/ and b/ together
MaxFiles == 2

RootPath == <<>>
PathA == <<DirA>>
PathAX == <<DirA, DirX>>
PathB == <<DirB>>
PathNodeModules == <<DirNodeModules>>
FreeDirs == {RootPath, PathA, PathB}
AllDirs == {RootPath, PathA, PathAX, PathB, PathNodeModules}

\* what a request file holds
Contents == {"s3", "s999", "s1000", "noseq", "nomethod", "unreadable"}

\* read_text succeeds (it raises on a file it may not read or cannot decode)
Readable(c) == c # "unreadable"

FileText(c) ==
    CASE c = "s3" -> MetaInline \o PostLineStart
      [] c = "s999" -> MetaSeq999 \o GetInline \o HeadersAB
      [] c = "s1000" -> MetaSeq1000 \o GetUpperIndented \o BodyJsonValid
      [] c = "noseq" -> MetaNoSeq \o PostLineStart \o BodyText
      [] c = "nomethod" -> MetaNoSeq \o ParamsBoth
      [] c = "folder" -> FolderBruA

\* the states of bruno.json
Descriptors ==
    { [state |-> "missing"],
      [state |-> "unreadable"],
      [state |-> "invalid_json"],
      [state |-> "not_object"],
      [state |-> "bad_ignore", json |-> [name |-> ApiName, ignore |-> "b"]],
      [state |-> "ok", json |-> [name |-> ApiName, ignore |-> <<>>]],
      [state |-> "ok", json |-> [ignore |-> <<DirB>>]] }

\* lines 163-176: "abort" is print-and-return, "raise" an exception nothing catches
LoadDescriptor(d) ==
    CASE d.state = "missing" -> "abort"
      [] d.state \in {"unreadable", "invalid_json"} -> "abort"
      [] d.state \in {"not_object", "bad_ignore"} -> "raise"
      [] d.state = "ok" -> "ok"

\* the output directory made before the descriptor is looked at
MkdirFirst(outcome) == TRUE

\* output_path.mkdir comes after both returns (line 182)
MkdirReached(outcome) == outcome = "ok"

\* collection_info.get("name", collection_path.name)
CollectionName(d) == IF "name" \in DOMAIN d.json THEN d.json.name ELSE CollectionDirName
\* collection_info.get("ignore", []) extended by ['.git', 'node_modules']
IgnoreList(d) ==
    (IF "ignore" \in DOMAIN d.json THEN d.json.ignore ELSE <<>>) \o <<DirGit, DirNodeModules>>

\* os.walk: the sub-directories and the files of a directory, in listing order
Subdirs(d) ==
    CASE d = RootPath -> <<DirA, DirB, DirNodeModules>>
      [] d = PathA -> <<DirX>>
      [] OTHER -> <<>>

RequestFiles(cs) == [i \in DOMAIN cs |-> [stem |-> <<"req", i>>, ext |-> "bru", content |-> cs[i]]]

Files(d) ==
    CASE d = RootPath -> << [stem |-> <<"bruno">>, ext |-> "json", content |-> "descriptor"] >>
                         \o RequestFiles(listing[d])
      [] d = PathA -> << [stem |-> <<"folder">>, ext |-> "bru", content |-> "folder"] >>
                      \o RequestFiles(listing[d])
      [] d = PathB -> RequestFiles(listing[d])
      [] OTHER -> RequestFiles(<<"s3">>)

\* root_path.name
DirName(d) == IF d = RootPath THEN CollectionDirName ELSE d[Len(d)]

\* file.endswith('.bru') and file != 'folder.bru'
IsRequestFile(f) == f.ext = "bru" /\ f.stem # <<"folder">>
IsFolderBru(f) == f.ext = "bru" /\ f.stem = <<"folder">>

\* lines 196-207: the display name of a directory
FolderName(d) ==
    IF \E i \in DOMAIN Files(d) : IsFolderBru(Files(d)[i])
    THEN LET f == Files(d)[CHOOSE i \in DOMAIN Files(d) : IsFolderBru(Files(d)[i])]
             name_match == NameMatch(FileText(f.content))
         IN IF name_match.found THEN Strip(name_match.group) ELSE DirName(d)
    ELSE DirName(d)

\* what the except clause of parse_bru_file returns (lines 107-109)
Raised == [kind |-> "raised"]
\* an except clause that prints and raises again
OnParseExceptionReraise == Raised
OnParseException == None

\* each content parsed once
ParsedContent == [c \in Contents \ {"unreadable"} |-> ParseContent(FileText(c))]

parse_bru_file(f) ==
    IF ~Readable(f.content) THEN OnParseException ELSE ParsedContent[f.content]

\* key=lambda r: r.get('seq', 999)
SortKey(r) == IF "seq" \in DOMAIN r THEN r.seq ELSE DefaultSeq

\* a sort that puts an element before the elements with its key
RECURSIVE SortBySeqUnstable(_)
SortBySeqUnstable(rs) ==
    IF rs = <<>> THEN <<>>
    ELSE LET sorted == SortBySeqUnstable(SubSeq(rs, 1, Len(rs) - 1))
             r == rs[Len(rs)]
             n == Cardinality({i \in DOMAIN sorted : SortKey(sorted[i]) < SortKey(r)})
         IN SubSeq(sorted, 1, n) \o <<r>> \o SubSeq(sorted, n + 1, Len(sorted))

\* list.sort is stable: an element goes after the elements that do not sort after it
RECURSIVE SortBySeq(_)
SortBySeq(rs) ==
    IF rs = <<>> THEN <<>>
    ELSE LET sorted == SortBySeq(SubSeq(rs, 1, Len(rs) - 1))
             r == rs[Len(rs)]
             n == Cardinality({i \in DOMAIN sorted : SortKey(sorted[i]) <= SortKey(r)})
         IN SubSeq(sorted, 1, n) \o <<r>> \o SubSeq(sorted, n + 1, Len(sorted))

\* the check of line 217 left out
NoRequestsNever(rd) == FALSE

\* if not requests_data (line 217)
NoRequests(rd) == rd = <<>>

\* "/".join of a relative path's parts
RECURSIVE PathText(_)
PathText(parts) ==
    IF parts = <<>> THEN <<>>
    ELSE IF Len(parts) = 1 THEN parts[1]
    ELSE parts[1] \o <<"/">> \o PathText(Tail(parts))

ReadmePath(d) == Append(d, ReadmeName)

\* "\n".join(markdown_content) of lines 228-230
FolderDocument(title, reqs) ==
    JoinLines(<< <<"#"," ">> \o title \o <<"\n">> >>
              \o [i \in DOMAIN reqs |-> generate_request_markdown(reqs[i])])

\* code point of a character, for the characters names are written in
Ord(c) ==
    CASE c \in Range(Digits) -> 47 + IndexIn(Digits, c)
      [] c \in Range(UpperLetters) -> 64 + IndexIn(UpperLetters, c)
      [] c \in Range(LowerLetters) -> 96 + IndexIn(LowerLetters, c)
      [] c = " " -> 32
      [] c = "." -> 46
      [] c = "/" -> 47
      [] c = "_" -> 95

\* str < str
RECURSIVE StrLess(_, _)
StrLess(a, b) ==
    IF b = <<>> THEN FALSE
    ELSE IF a = <<>> THEN TRUE
    ELSE IF a[1] # b[1] THEN Ord(a[1]) < Ord(b[1])
    ELSE StrLess(Tail(a), Tail(b))

\* (name, path) < (name, path): tuples compare field by field, paths part by part
EntryLess(x, y) ==
    IF x[1] # y[1] THEN StrLess(x[1], y[1]) ELSE StrLess(PathText(x[2]), PathText(y[2]))

\* top_level_folders.sort()
RECURSIVE SortEntries(_)
SortEntries(es) ==
    IF es = <<>> THEN <<>>
    ELSE LET sorted == SortEntries(SubSeq(es, 1, Len(es) - 1))
             e == es[Len(es)]
             n == Cardinality({i \in DOMAIN sorted : ~EntryLess(e, sorted[i])})
         IN SubSeq(sorted, 1, n) \o <<e>> \o SubSeq(sorted, n + 1, Len(sorted))

\* "\n".join(top_level_readme_content) of lines 184 and 243-250
IndexDocument(collection_name, folders) ==
    JoinLines(<< IndexTitle \o collection_name \o <<"\n">> >>
              \o (IF folders # <<>>
                  THEN <<EndpointsTitle>>
                       \o [i \in DOMAIN folders |->
                             <<"-"," ","[">> \o SortEntries(folders)[i][1] \o <<"]","(">>
                             \o PathText(SortEntries(folders)[i][2]) \o <<")">>]
                  ELSE <<>>))

\* write_text: the file at path now holds doc
WriteText(fs, path, doc) ==
    [q \in DOMAIN fs \cup {path} |-> IF q = path THEN doc ELSE fs[q]]

ParseIdle ==
    /\ text = <<>>
    /\ record = None
    /\ rendered = <<>>
    /\ ppc = "idle"

Init ==
    /\ ParseIdle
    /\ descriptor \in Descriptors
    /\ \E n \in [FreeDirs -> 0..MaxFiles] :
         /\ n[RootPath] + n[PathA] + n[PathB] <= MaxFiles
         /\ \E r \in [1..n[RootPath] -> Contents], a \in [1..n[PathA] -> Contents],
               b \in [1..n[PathB] -> Contents] :
              listing = [d \in FreeDirs |-> IF d = RootPath THEN r ELSE IF d = PathA THEN a ELSE b]
    /\ pc = "start"
    /\ walk = <<>>
    /\ cur = <<>>
    /\ todo = <<>>
    /\ folder_name = <<>>
    /\ requests_data = <<>>
    /\ top_level_folders = <<>>
    /\ out_created = FALSE
    /\ out_files = <<>>
    /\ generated = <<>>

\* lines 159-185: the descriptor is validated, then the output directory made
Start ==
    /\ pc = "start"
    /\ LET outcome == LoadDescriptor(descriptor)
       IN /\ out_created' = MkdirReached(outcome)
          /\ pc' = CASE outcome = "abort" -> "aborted"
                     [] outcome = "raise" -> "crashed"
                     [] outcome = "ok" -> "walk"
          /\ walk' = IF outcome = "ok" THEN <<RootPath>> ELSE <<>>
    /\ UNCHANGED <<descriptor, listing, cur, todo, folder_name, requests_data,
                   top_level_folders, out_files, generated>>
    /\ UNCHANGED parseVars

\* lines 188-207: os.walk yields the next directory, top down
VisitDir ==
    /\ pc = "walk"
    /\ walk # <<>>
    /\ LET d == Head(walk)
           kept == SelectSeq(Subdirs(d), LAMBDA n : \A i \in DOMAIN IgnoreList(descriptor) :
                                                       IgnoreList(descriptor)[i] # n)
       IN /\ cur' = d
          /\ walk' = [i \in DOMAIN kept |-> Append(d, kept[i])] \o Tail(walk)
          /\ requests_data' = <<>>
          /\ folder_name' = FolderName(d)
          /\ todo' = Files(d)
    /\ pc' = "files"
    /\ UNCHANGED <<descriptor, listing, top_level_folders, out_created, out_files, generated>>
    /\ UNCHANGED parseVars

\* lines 210-215: one turn of the loop over the directory's files;
\* nothing in main catches what the call at line 213 would raise
LookAtFile ==
    /\ pc = "files"
    /\ todo # <<>>
    /\ LET file == Head(todo)
           parsed_data == IF IsRequestFile(file) THEN parse_bru_file(file) ELSE None
       IN /\ pc' = IF parsed_data = Raised THEN "crashed" ELSE "files"
          /\ requests_data' = IF parsed_data \notin {None, Raised}
                              THEN Append(requests_data, parsed_data)
                              ELSE requests_data
    /\ todo' = Tail(todo)
    /\ UNCHANGED <<descriptor, listing, walk, cur, folder_name, top_level_folders,
                   out_created, out_files, generated>>
    /\ UNCHANGED parseVars

\* lines 217-218: a directory with no request gets no document
SkipDir ==
    /\ pc = "files"
    /\ todo = <<>>
    /\ NoRequests(requests_data)
    /\ pc' = "walk"
    /\ UNCHANGED <<descriptor, listing, walk, cur, todo, folder_name, requests_data,
                   top_level_folders, out_created, out_files, generated>>
    /\ UNCHANGED parseVars

\* lines 220-240: sort, render and write the directory's document
WriteFolder ==
    /\ pc = "files"
    /\ todo = <<>>
    /\ ~NoRequests(requests_data)
    /\ requests_data' = SortBySeq(requests_data)
    /\ out_files' = WriteText(out_files, ReadmePath(cur), FolderDocument(folder_name, requests_data'))
    /\ generated' = Append(generated, ReadmePath(cur))
    /\ top_level_folders' = IF cur # RootPath /\ Len(cur) = 1
                            THEN Append(top_level_folders, <<folder_name, ReadmePath(cur)>>)
                            ELSE top_level_folders
    /\ pc' = "walk"
    /\ UNCHANGED <<descriptor, listing, walk, cur, todo, folder_name, out_created>>
    /\ UNCHANGED parseVars

\* lines 242-256: the root index, once the walk is over
WriteIndex ==
    /\ pc = "walk"
    /\ walk = <<>>
    /\ out_files' = WriteText(out_files, ReadmePath(RootPath),
                              IndexDocument(CollectionName(descriptor), top_level_folders))
    /\ generated' = Append(generated, ReadmePath(RootPath))
    /\ pc' = "done"
    /\ UNCHANGED <<descriptor, listing, walk, cur, todo, folder_name, requests_data,
                   top_level_folders, out_created>>
    /\ UNCHANGED parseVars

Next == Start \/ VisitDir \/ LookAtFile \/ SkipDir \/ WriteFolder \/ WriteIndex

Spec == Init /\ [][Next]_vars

----------------------------------------------------------------------------
(* Properties of the parse run (SpecParse).                                 *)

Parsed == ppc \in {"parsed", "rendered"}

\* the tag written before the opening brace at position j: the run of
\* characters, neither blank nor a brace, that ends before j's leading blanks
TagBefore(t, j) ==
    LET Stop(c) == IsSpace(c) \/ c \in {"{", "}"}
        e == IF \E k \in 1..(j - 1) : ~IsSpace(t[k])
             THEN CHOOSE k \in 1..(j - 1) : ~IsSpace(t[k]) /\ \A q \in (k + 1)..(j - 1) : IsSpace(t[q])
             ELSE 0
        b == IF e = 0 \/ Stop(t[e]) THEN e + 1
             ELSE CHOOSE k \in 1..e : (\A q \in k..e : ~Stop(t[q])) /\ (k = 1 \/ Stop(t[k - 1]))
    IN SubSeq(t, b, e)

\* the positions of the opening braces of the blocks tagged tag (any case when ic)
BlocksTagged(t, tag, ic) ==
    {j \in DOMAIN t : /\ t[j] = "{"
                      /\ IndexFrom(t, j + 1, "}") # 0
                      /\ (IF ic THEN Lower(TagBefore(t, j)) = tag ELSE TagBefore(t, j) = tag)}

HasMetaBlock(t) == BlocksTagged(t, MetaTag, FALSE) # {}
HasMethodBlock(t) == \E m \in DOMAIN MethodTags : BlocksTagged(t, MethodTags[m], TRUE) # {}

MinimalText == MetaInline \o GetInline

\* the lines of the method block that hold a url: key and a value, blanks before the key or not
UrlLineValue(line) == Strip(SubSeq(Strip(line), Len(UrlKey) + 1, Len(Strip(line))))
IsUrlLine(line) == LitAt(Strip(line), 1, UrlKey, FALSE) /\ UrlLineValue(line) # <<>>

\* C1: for the minimal input (meta { name: X / seq: 3 } and get { url: /foo })
\* the record has name X, seq 3, method GET, url /foo and three empty maps; and
\* whenever the method block holds a url: line, indented or not, the record's
\* url is that line's value, not the placeholder.
C1_UrlOfMethodBlock ==
    Parsed =>
      /\ text = MinimalText =>
           /\ record # None
           /\ record.name = <<"X">>
           /\ record.seq = 3
           /\ record.method = <<"G","E","T">>
           /\ record.url = <<"/","f","o","o">>
           /\ record.path_params = <<>>
           /\ record.query_params = <<>>
           /\ record.headers = <<>>
      /\ record # None =>
           LET lines == SplitLines(SearchBlock(text, MethodTags, TRUE).content)
               urls == {i \in DOMAIN lines : IsUrlLine(lines[i])}
           IN urls # {} =>
                LET first == CHOOSE i \in urls : \A k \in urls : i <= k
                IN record.url = UrlLineValue(lines[first]) /\ record.url # NoUrlFound

\* the opening brace of the body:json block, or 0
JsonBlockOpen(t) ==
    LET At(i) == BodyAt(t, i) /\ Lower(SubSeq(t, i + Len(BodyPrefix),
                                              SkipWord(t, i + Len(BodyPrefix)) - 1)) = JsonType
        i == FirstPos({k \in 1..Len(t) : At(k)})
    IN IF i = 0 THEN 0 ELSE SkipSpace(t, SkipWord(t, i + Len(BodyPrefix)))

\* the { ... } the body:json block wraps in its own pair of braces, or <<>>
EmbeddedObject(t) ==
    LET j == JsonBlockOpen(t)
        a == SkipSpace(t, j + 1)
        b == IndexFrom(t, a, "}")
    IN IF j # 0 /\ a <= Len(t) /\ t[a] = "{" /\ b # 0 THEN SubSeq(t, a, b) ELSE <<>>

\* its closing brace is followed by the block's own
EmbeddedObjectWrapped(t) ==
    LET a == SkipSpace(t, JsonBlockOpen(t) + 1)
        c == SkipSpace(t, IndexFrom(t, a, "}") + 1)
    IN EmbeddedObject(t) # <<>> /\ c <= Len(t) /\ t[c] = "}"

\* C2: when the body:json block wraps a valid JSON object in the format's
\* extra pair of braces, the record's body is that object, parsed and printed
\* with an indentation of 2, in a fence labeled json.
C2_JsonBodyPrettyPrinted ==
    (Parsed /\ record # None /\ EmbeddedObjectWrapped(text) /\ JsonLoads(EmbeddedObject(text)).ok) =>
        record.body = Fence(JsonType, JsonDumps(JsonLoads(EmbeddedObject(text)).obj))

\* C3: when what the body:json block embeds between braces is not valid JSON,
\* a file with a meta and a method block still yields a record, and its body
\* is a fence with no label around the raw body text.
C3_InvalidJsonUnlabeledFence ==
    (Parsed /\ HasMetaBlock(text) /\ HasMethodBlock(text)
       /\ EmbeddedObject(text) # <<>> /\ ~JsonLoads(EmbeddedObject(text)).ok) =>
        /\ record # None
        /\ record.body = Fence(<<>>, Strip(BodyMatch(text).content))

\* C5: a text with a meta block and no block tagged exactly get, post, put,
\* patch, delete, options or head (in any case) yields no record; a tag that
\* only ends in one of these words, as in target { ... }, makes no record.
C5_NoMethodBlockAbsent ==
    (Parsed /\ HasMetaBlock(text) /\ ~HasMethodBlock(text)) => record = None

\* the (key, value) pairs of the first block tagged tag: its lines that hold a
\* colon, cut at the first colon, both sides trimmed
BlockPairs(t, tag) ==
    LET block == SearchBlock(t, <<tag>>, FALSE)
        lines == IF block.found THEN SplitLines(block.content) ELSE <<>>
        colon == SelectSeq(lines, LAMBDA l : \E i \in DOMAIN l : l[i] = ":")
        Cut(l) == LET c == CHOOSE i \in DOMAIN l : l[i] = ":" /\ \A k \in 1..(i - 1) : l[k] # ":"
                  IN <<Strip(SubSeq(l, 1, c - 1)), Strip(SubSeq(l, c + 1, Len(l)))>>
    IN [i \in DOMAIN colon |-> Cut(colon[i])]

\* m lists each key of pairs once, in the order the keys first occur, with the
\* value of the key's last occurrence
IsOrderedMapOf(m, pairs) ==
    LET First(k) == CHOOSE i \in DOMAIN pairs : pairs[i][1] = k /\ \A j \in 1..(i - 1) : pairs[j][1] # k
        Last(k) == CHOOSE i \in DOMAIN pairs : pairs[i][1] = k /\ \A j \in (i + 1)..Len(pairs) : pairs[j][1] # k
    IN /\ {m[i][1] : i \in DOMAIN m} = {pairs[i][1] : i \in DOMAIN pairs}
       /\ \A i, j \in DOMAIN m : i < j => First(m[i][1]) < First(m[j][1])
       /\ \A i \in DOMAIN m : m[i][2] = pairs[Last(m[i][1])][2]

\* C9: each of the maps for params:path, params:query and headers holds the
\* pairs of the first such block of the text: one entry for each key, in the
\* order of the keys' first occurrences, with the value of the last occurrence;
\* lines without a colon give no entry, and a missing block gives an empty map.
C9_ParamMapsOrdered ==
    (Parsed /\ record # None) =>
        /\ IsOrderedMapOf(record.path_params, BlockPairs(text, ParamsPathTag))
        /\ IsOrderedMapOf(record.query_params, BlockPairs(text, ParamsQueryTag))
        /\ IsOrderedMapOf(record.headers, BlockPairs(text, HeadersTag))

\* a block with a key written twice, a value holding a colon and a line without one
C9_Witness ==
    /\ Parsed
    /\ record # None
    /\ \E h \in MethodFragments, b \in BodyFragments : text = MetaInline \o h \o HeadersDup \o b
    /\ record.headers = << <<<<"B">>, <<"2">>>>, <<<<"A">>, <<"x",":","y">>>> >>
    /\ record.path_params = <<>>

----------------------------------------------------------------------------
(* Properties of the main run (Spec).                                       *)

Running == pc \in {"walk", "files", "done"}

\* the directories the walk reaches: no name on the path is ignored
Reached(d) == \A i \in DOMAIN d : \A k \in DOMAIN IgnoreList(descriptor) : IgnoreList(descriptor)[k] # d[i]
ReachedDirs == {d \in AllDirs : Reached(d)}

\* the contents of the request files of a directory, as discovered
RequestContents(d) ==
    LET fs == SelectSeq(Files(d), IsRequestFile) IN [i \in DOMAIN fs |-> fs[i].content]

\* a file's text makes a record
MakesRecord(c) == Readable(c) /\ ParsedContent[c] # None

\* the contents, among those of a directory, that make a record
RecordContents(d) == SelectSeq(RequestContents(d), MakesRecord)

\* the file's meta block declares a seq
DeclaresSeq(c) == SeqMatch(SearchBlock(FileText(c), <<MetaTag>>, FALSE).content).found

Orders(n) == {p \in [1..n -> 1..n] : \A i, j \in 1..n : i # j => p[i] # p[j]}

\* the document just written for cur lists cur's records in the order p
JustWroteFolder == pc = "walk" /\ generated # <<>> /\ generated[Len(generated)] = ReadmePath(cur)
DocumentInOrder(p) ==
    out_files[ReadmePath(cur)] =
        FolderDocument(folder_name, [i \in DOMAIN p |-> ParsedContent[RecordContents(cur)[p[i]]]])

\* C4 as stated: in a folder document the records stand in ascending seq order,
\* every record of a file that declares no seq after all records of files that
\* declare one (whatever the seq, beyond 999 too), and records with equal sort
\* keys in discovery order.
C4_NoSeqAfterAllDeclared ==
    JustWroteFolder =>
        \E p \in Orders(Len(RecordContents(cur))) :
            LET c == [i \in DOMAIN p |-> RecordContents(cur)[p[i]]]
            IN /\ \A i, j \in DOMAIN p : i < j =>
                     /\ ParsedContent[c[i]].seq <= ParsedContent[c[j]].seq
                     /\ ~(~DeclaresSeq(c[i]) /\ DeclaresSeq(c[j]))
                     /\ (ParsedContent[c[i]].seq = ParsedContent[c[j]].seq
                           /\ DeclaresSeq(c[i]) = DeclaresSeq(c[j])) => p[i] < p[j]
               /\ DocumentInOrder(p)

\* C4, amended: in a folder document the records stand in ascending seq order,
\* a record of a file that declares no seq counting as seq 999: after the
\* records that declare less, before the records that declare more; records
\* with equal sort keys, a declared 999 and a missing seq among them, stand in
\* discovery order.
C4_SortedBySeqWithSentinel ==
    JustWroteFolder =>
        \E p \in Orders(Len(RecordContents(cur))) :
            LET c == [i \in DOMAIN p |-> RecordContents(cur)[p[i]]]
                Key(x) == IF DeclaresSeq(x) THEN ParsedContent[x].seq ELSE 999
            IN /\ \A i, j \in DOMAIN p : i < j =>
                     \/ Key(c[i]) < Key(c[j])
                     \/ (Key(c[i]) = Key(c[j]) /\ p[i] < p[j])
               /\ DocumentInOrder(p)

\* a file declaring seq 999 found after one declaring none: the tie keeps them so
C4_Witness ==
    /\ JustWroteFolder
    /\ cur = PathB
    /\ listing[PathB] = <<"noseq", "s999">>
    /\ requests_data = <<ParsedContent["noseq"], ParsedContent["s999"]>>

\* C6: with bruno.json missing or malformed the run ends before any output:
\* the output directory is never made and no README.md is written.
C6_NoOutputOnBadDescriptor ==
    descriptor.state # "ok" =>
        /\ ~out_created
        /\ out_files = <<>>
        /\ generated = <<>>
        /\ pc \in {"start", "aborted", "crashed"}

C6_Witness == descriptor.state = "invalid_json" /\ pc = "aborted" /\ ~out_created

\* every request file of the directory yields absent, and there is one
AllAbsent(d) ==
    /\ RequestContents(d) # <<>>
    /\ RecordContents(d) = <<>>

\* the entries of the root index: the directories right below the root that
\* gave a record, in walk order
IndexEntries ==
    LET tops == SelectSeq(<<PathA, PathB>>, LAMBDA d : Reached(d) /\ RecordContents(d) # <<>>)
    IN [i \in DOMAIN tops |-> <<FolderName(tops[i]), ReadmePath(tops[i])>>]

\* C7: a directory whose request files all yield absent gets no folder
\* document and no entry in the root index, while the directories with records
\* before and after it get theirs and the root index is written at the end.
C7_AllAbsentDirSkipped ==
    Running =>
        \A d \in ReachedDirs : AllAbsent(d) =>
            /\ \A i \in DOMAIN generated : generated[i] = ReadmePath(d) =>
                   (d = RootPath /\ pc = "done" /\ i = Len(generated))
            /\ d # RootPath => ReadmePath(d) \notin DOMAIN out_files
            /\ \A i \in DOMAIN top_level_folders : top_level_folders[i][2] # ReadmePath(d)
            /\ pc = "done" =>
                 /\ \A e \in ReachedDirs : RecordContents(e) # <<>> =>
                        \E i \in 1..(Len(generated) - 1) : generated[i] = ReadmePath(e)
                 /\ generated[Len(generated)] = ReadmePath(RootPath)
                 /\ out_files[ReadmePath(RootPath)] =
                        IndexDocument(CollectionName(descriptor), IndexEntries)

\* a/ holds only a file without a method block, between coll/ and a/x/ with records
C7_Witness ==
    /\ pc = "done"
    /\ listing[RootPath] = <<"s999">>
    /\ listing[PathA] = <<"nomethod">>
    /\ generated = <<ReadmePath(RootPath), ReadmePath(PathAX), ReadmePath(RootPath)>>

\* the files of cur the loop has looked at
Seen == SubSeq(Files(cur), 1, Len(Files(cur)) - Len(todo))

\* C8: a file that cannot be read or parsed is absent and no more: nothing is
\* raised into main, and the other files of its directory and of the later
\* directories give the records they give in a run without the faulty file.
C8_FaultIsolated ==
    /\ descriptor.state = "ok" => pc # "crashed"
    /\ pc = "files" =>
         LET others == SelectSeq(Seen, LAMBDA f : IsRequestFile(f) /\ Readable(f.content))
             recs == [i \in DOMAIN others |-> ParsedContent[others[i].content]]
         IN requests_data = SelectSeq(recs, LAMBDA r : r # None)
    /\ pc = "done" =>
         \A d \in ReachedDirs : RecordContents(d) # <<>> =>
             \E i \in 1..(Len(generated) - 1) : generated[i] = ReadmePath(d)

\* an unreadable file, then a request of the same directory that gave its record
C8_Witness ==
    /\ pc = "files"
    /\ cur = PathB
    /\ listing[PathB] = <<"unreadable", "s3">>
    /\ todo = <<>>
    /\ requests_data = <<ParsedContent["s3"]>>

\* C10: when the run is over, the README.md of every visited directory that
\* gave a record, the collection root too, holds that directory's folder
\* document; the root index does not replace it.
C10_FolderDocumentsKept ==
    pc = "done" =>
        \A d \in ReachedDirs : RecordContents(d) # <<>> =>
            /\ ReadmePath(d) \in DOMAIN out_files
            /\ out_files[ReadmePath(d)] =
                   FolderDocument(FolderName(d),
                                  SortBySeq([i \in DOMAIN RecordContents(d) |->
                                               ParsedContent[RecordContents(d)[i]]]))

====
